---- MODULE Spec2Model ----
(***************************************************************************)
(* Model of web-scraper.py: the two-level parallel fetch of Flickr pages   *)
(* (one outer pool over the search terms, one inner pool per page over the *)
(* photos of the page), the geo enrichment through the Google Maps         *)
(* geocoder with its geo_info cache, and the insert of the image rows.     *)
(*                                                                         *)
(* Every database call, every remote call and every pool operation is one  *)
(* atomic step; the steps of different worker processes interleave freely. *)
(* db_utils.DBUtils is not part of the sources at hand: get_data and       *)
(* insert_data are modelled from the RecordStore contract of the spec.     *)
(***************************************************************************)
EXTENDS Integers, Sequences, FiniteSets, Bags, TLC

\* ------------------------------------------------------------- bounds
\* multiprocessing.cpu_count() is drawn from 1..MaxProcs
MaxProcs == 2
\* at most MaxFailures remote calls raise in one run
MaxFailures == 1

\* ------------------------------------------------- inputs and collaborators
\* the value of latitude/longitude that means "geo unknown" (line 155)
Sentinel == "0"

Terms == {"paris", "rome", "new york", "atlantis"}

\* search_text_list as given to the constructor; the first is the list of __main__
SearchLists ==
  { <<"paris", "rome", "new york">>,
    <<"rome">>,
    <<"rome", "rome">>,
    <<"atlantis", "rome">>,
    <<"new york", "rome", "new york", "new york", "new york">> }

\* flickr.photos.search(...)['photos']['pages'] for a search text
FlickrPages(search_text) ==
  CASE search_text = "paris" -> 3
    [] search_text = "rome" -> 2
    [] search_text = "atlantis" -> 2
    [] OTHER -> 1

Photo(id, latitude, longitude) ==
  [id |-> id, title |-> "t", latitude |-> latitude, longitude |-> longitude]

\* flickr.photos.search(..., page=page_no)['photos']['photo'] for a search text
FlickrPhotos(search_text, page_no) ==
  CASE search_text = "paris" /\ page_no = 1 ->
         <<Photo("A", "0", "0"), Photo("B", "48.85", "0")>>
    [] search_text = "paris" /\ page_no = 2 -> <<Photo("C", "10", "20")>>
    [] search_text = "paris" /\ page_no = 3 -> <<Photo("E", "0", "0")>>
    [] search_text = "rome" /\ page_no = 1 -> <<Photo("A", "0", "0")>>
    [] search_text = "rome" /\ page_no = 2 -> <<Photo("F", "1", "2")>>
    [] search_text = "atlantis" /\ page_no = 1 ->
         <<Photo("A", "0", "0"), Photo("D", "0", "0"), Photo("H", "3", "4"),
           Photo("I", "5", "6"), Photo("J", "7", "8")>>
    [] search_text = "new york" /\ page_no = 1 -> <<Photo("G", "0", "0")>>
    [] OTHER -> <<>>

\* maps.geocode(search_text): the list of matches, empty when there is none
GeocodeMatches(search_text) ==
  CASE search_text = "paris" -> <<[lat |-> "48.8", lng |-> "2.3"]>>
    [] search_text = "rome" -> <<[lat |-> "41.9", lng |-> "12.5"]>>
    [] search_text = "new york" -> <<[lat |-> "40.7", lng |-> "-74.0"]>>
    [] OTHER -> <<>>

\* what one call of maps.geocode(search_text) may answer: the service is remote
\* and two calls for one search text need not get the same answer (line 139)
GeocodeAnswers(search_text) ==
  IF search_text = "paris"
    THEN {GeocodeMatches(search_text), <<[lat |-> "48.9", lng |-> "2.4"]>>}
    ELSE {GeocodeMatches(search_text)}

\* the largest page size the Flickr API serves (line 41)
MaxPerPage == 500

\* photos_per_page as __main__ passes it to the constructor (line 208)
MainPerPage == 500

\* photos_per_page as a caller of the class may pass it
PerPageArgs == {2, MaxPerPage, MaxPerPage + 1}

Ids == {"A", "B", "C", "D", "E", "F", "G", "H", "I", "J"}

LastPage == CHOOSE n \in {FlickrPages(t) : t \in Terms} :
              \A t \in Terms : FlickrPages(t) <= n
PageNos == 1 .. LastPage

\* ------------------------------------------------------------ RecordStore
\* DBUtils.get_data(table, column, value): the rows whose column has the value
GetData(table, column, value) == {r \in BagToSet(table) : r[column] = value}

\* mutant: insert_data replaces the row of the key
InsertDataReplace(table, params) ==
  LET others == {r \in BagToSet(table) : r[1] # params[1]}
  IN  [r \in others |-> table[r]] (+) SetToBag({params})

\* DBUtils.insert_data(table, params): insert-if-absent on the primary key,
\* which is the first column of both tables; atomic
InsertData(table, params) ==
  IF \E r \in BagToSet(table) : r[1] = params[1]
    THEN table
    ELSE table (+) SetToBag({params})

\* ------------------------------------------------------------------ state
VARIABLES
  search_text_list,  \* self.search_text_list
  photos_per_page,   \* self.photos_per_page
  no_of_processors,  \* self.no_of_processors
  fail_fast,         \* the Python build: Pool.map re-raises on the first failed
                     \* result (up to 3.5), or once every result is in (3.6, 3.7)
  main,              \* position of __main__: "constructed", "map", "done",
                     \* "raised", "exited"
  camp,              \* per element of search_text_list: the get_pages call
  pool,              \* per get_pages call and page: the tasks of the page's pool
  image_metadata,    \* table image_metadata, a bag of rows <<id, title, lat, lng>>
  geo_info,          \* table geo_info, a bag of rows <<search_text, lat, lng>>
  failures           \* number of remote calls that have raised

vars == <<search_text_list, photos_per_page, no_of_processors, fail_fast, main,
          camp, pool, image_metadata, geo_info, failures>>

\* what is fixed when the run starts
config == <<search_text_list, photos_per_page, no_of_processors, fail_fast>>

Campaigns == DOMAIN search_text_list

\* ---------------------------------------------------------- Pool.map
\* Pool.map cuts the iterable into chunks of this size (multiprocessing.pool)
ChunkSize(len, procs) ==
  LET q == len \div (4 * procs)
      r == len % (4 * procs)
  IN  IF r > 0 THEN q + 1 ELSE q

ChunkOf(k, cs) == (k - 1) \div cs
FirstOfChunk(k, cs) == k = 1 \/ ChunkOf(k - 1, cs) # ChunkOf(k, cs)

\* the chunks of a map that hold a worker: taken, not finished, not given up.
\* pcs is the sequence of the items' states; an item not yet taken is `idle`, an
\* item that raised or was killed is in `aborted`
BusyChunks(pcs, cs, idle, aborted) ==
  { c \in {ChunkOf(k, cs) : k \in DOMAIN pcs} :
      LET items == {k \in DOMAIN pcs : ChunkOf(k, cs) = c} IN
      /\ \E k \in items : pcs[k] # idle
      /\ \E k \in items : pcs[k] # "done"
      /\ \A k \in items : pcs[k] \notin aborted }

\* item k of a map may be taken by a worker: chunks are handed out in order to
\* at most `procs` workers, and a worker runs the items of its chunk in order,
\* giving the chunk up when an item raises
MayStart(pcs, k, procs, idle, aborted) ==
  LET cs == ChunkSize(Len(pcs), procs) IN
  /\ pcs[k] = idle
  /\ IF FirstOfChunk(k, cs)
       THEN /\ \A h \in 1 .. (k - 1) : pcs[h] # idle \/ ~FirstOfChunk(h, cs)
            /\ Cardinality(BusyChunks(pcs, cs, idle, aborted)) < procs
       ELSE pcs[k - 1] = "done"

\* every chunk of the map has sent its result: all its items are done, or one
\* of them raised
AllChunksBack(pcs, procs, aborted) ==
  LET cs == ChunkSize(Len(pcs), procs) IN
  \A k \in DOMAIN pcs :
    \/ pcs[k] = "done"
    \/ \E h \in DOMAIN pcs : ChunkOf(h, cs) = ChunkOf(k, cs) /\ pcs[h] \in aborted

\* map re-raises the exception of an item: at the first failed result, or when
\* every chunk has sent its result
MapFails(pcs, procs, failed, aborted) ==
  /\ \E k \in DOMAIN pcs : pcs[k] = failed
  /\ fail_fast \/ AllChunksBack(pcs, procs, aborted)

\* ------------------------------------------------------------ get_pages
CampPcs == [i \in Campaigns |-> camp[i].pc]
CampAborted == {"raised", "killed"}

\* mutant: the loop runs up to and including the last page
InRangeInclusive(page_no, no_of_pages) == page_no <= no_of_pages

\* range(1, no_of_pages) still has page_no
InRange(page_no, no_of_pages) == page_no < no_of_pages

NewTask(photo) ==
  [photo |-> photo,      \* the photo dict of the task, as the worker holds it
   pc |-> "queued",      \* queued, geo_read, geocode, geo_insert, insert,
                         \* done, failed, killed
   existed |-> FALSE,    \* the existence check found a row (line 153)
   looked |-> FALSE,     \* the geo cache has been read (line 135)
   hit |-> FALSE,        \* ... and held a row for the search text
   calls |-> 0,          \* remote geocode calls made (line 139)
   geo_data |-> <<>>,    \* what get_missing_geo_data returns (line 156)
   params |-> <<>>,      \* the row handed to insert_data (line 160)
   won |-> FALSE]        \* ... which found no row of that id and stored it

\* get_pages is taken by a worker of the outer pool and asks for the page count
GetNoOfPages(i) ==
  /\ main # "constructed"
  /\ MayStart(CampPcs, i, no_of_processors, "queued", CampAborted)
  /\ camp' = [camp EXCEPT ![i].pc = "loop",
                          ![i].no_of_pages = FlickrPages(search_text_list[i]),
                          ![i].page_no = 1,
                          ![i].per_page = @ \cup {photos_per_page}]
  /\ UNCHANGED <<config, main, pool,
                 image_metadata, geo_info, failures>>

\* the page-count query raises: get_pages raises
GetNoOfPagesRaises(i) ==
  /\ main # "constructed"
  /\ MayStart(CampPcs, i, no_of_processors, "queued", CampAborted)
  /\ failures < MaxFailures
  /\ failures' = failures + 1
  /\ camp' = [camp EXCEPT ![i].pc = "raised",
                          ![i].per_page = @ \cup {photos_per_page}]
  /\ UNCHANGED <<config, main, pool,
                 image_metadata, geo_info>>

\* one iteration of the loop: fetch the page, create its pool and map the photos
FetchPage(i) ==
  /\ camp[i].pc = "loop"
  /\ InRange(camp[i].page_no, camp[i].no_of_pages)
  /\ LET photos == FlickrPhotos(search_text_list[i], camp[i].page_no) IN
       pool' = [pool EXCEPT ![i][camp[i].page_no] =
                  [j \in DOMAIN photos |-> NewTask(photos[j])]]
  /\ camp' = [camp EXCEPT ![i].pc = "map",
                          ![i].fetched = Append(@, camp[i].page_no),
                          ![i].per_page = @ \cup {photos_per_page}]
  /\ UNCHANGED <<config, main,
                 image_metadata, geo_info, failures>>

\* the page query raises: get_pages raises
FetchPageRaises(i) ==
  /\ camp[i].pc = "loop"
  /\ InRange(camp[i].page_no, camp[i].no_of_pages)
  /\ failures < MaxFailures
  /\ failures' = failures + 1
  /\ camp' = [camp EXCEPT ![i].pc = "raised",
                          ![i].fetched = Append(@, camp[i].page_no),
                          ![i].per_page = @ \cup {photos_per_page}]
  /\ UNCHANGED <<config, main, pool,
                 image_metadata, geo_info>>

\* the loop is over: get_pages returns
EndPages(i) ==
  /\ camp[i].pc = "loop"
  /\ ~InRange(camp[i].page_no, camp[i].no_of_pages)
  /\ camp' = [camp EXCEPT ![i].pc = "done"]
  /\ UNCHANGED <<config, main, pool,
                 image_metadata, geo_info, failures>>

\* mutant: the loop goes on once every task has been handed to a worker
MapAllTaken(tasks) == \A j \in DOMAIN tasks : tasks[j].pc # "queued"

\* sub_process_pool.map has every result
MapComplete(tasks) == \A j \in DOMAIN tasks : tasks[j].pc = "done"

\* map returns; close and join the pool; next page
JoinPage(i) ==
  /\ camp[i].pc = "map"
  /\ MapComplete(pool[i][camp[i].page_no])
  /\ camp' = [camp EXCEPT ![i].pc = "loop", ![i].page_no = @ + 1]
  /\ UNCHANGED <<config, main, pool,
                 image_metadata, geo_info, failures>>

\* a task of the page raised: map re-raises it in get_pages, which raises
MapRaises(i) ==
  /\ camp[i].pc = "map"
  /\ MapFails([j \in DOMAIN pool[i][camp[i].page_no] |->
                 pool[i][camp[i].page_no][j].pc],
              no_of_processors, "failed", {"failed", "killed"})
  /\ camp' = [camp EXCEPT ![i].pc = "raised"]
  /\ UNCHANGED <<config, main, pool,
                 image_metadata, geo_info, failures>>

TaskFinal == {"done", "failed", "killed"}

\* the pool of a get_pages call that raised or was killed is never closed and
\* joined: its workers are terminated at some point, whatever they are doing
TerminateSubPool(i) ==
  /\ camp[i].pc \in {"raised", "killed"}
  /\ \E p \in PageNos : \E j \in DOMAIN pool[i][p] : pool[i][p][j].pc \notin TaskFinal
  /\ pool' = [pool EXCEPT ![i] =
       [p \in PageNos |->
          [j \in DOMAIN pool[i][p] |->
             IF pool[i][p][j].pc \in TaskFinal
               THEN pool[i][p][j]
               ELSE [pool[i][p][j] EXCEPT !.pc = "killed"]]]]
  /\ UNCHANGED <<config, main, camp,
                 image_metadata, geo_info, failures>>

\* ------------------------------------------------ insert_image_metadata_db
TaskAborted == {"failed", "killed"}
TaskPcs(i, p) == [j \in DOMAIN pool[i][p] |-> pool[i][p][j].pc]

\* mutant: the existence check is ignored
NotPersistedAlways(result) == TRUE

\* mutant: the condition of line 154 inverted
NotPersistedInverted(result) == result # {}

\* "if not result" (line 154)
NotPersisted(result) == result = {}

\* mutant: geo resolution only when both coordinates are the sentinel
NeedsGeoBoth(photo) == photo.latitude = Sentinel /\ photo.longitude = Sentinel

\* mutant: geo resolution for every photo
NeedsGeoAlways(photo) == TRUE

\* "if str(photo['latitude']) == '0' or str(photo['longitude']) == '0'" (line 155)
NeedsGeo(photo) == photo.latitude = Sentinel \/ photo.longitude = Sentinel

\* mutant: the cached row is never used
CachedNever(result) == FALSE

\* "if result: return result[0]" (lines 136-137)
Cached(result) == result # {}

\* mutant: only the axis that holds the sentinel is overwritten
EnrichSentinelAxis(photo, geo_data) ==
  IF geo_data # <<>>
    THEN [photo EXCEPT
            !.latitude = IF @ = Sentinel THEN geo_data[2] ELSE @,
            !.longitude = IF @ = Sentinel THEN geo_data[3] ELSE @]
    ELSE photo

\* mutant: without the test of line 157 an empty result blanks the coordinates
EnrichUnguarded(photo, geo_data) ==
  IF geo_data # <<>>
    THEN [photo EXCEPT !.latitude = geo_data[2], !.longitude = geo_data[3]]
    ELSE [photo EXCEPT !.latitude = "", !.longitude = ""]

\* lines 157-159: geo_data is (search_text, latitude, longitude) or ()
Enrich(photo, geo_data) ==
  IF geo_data # <<>>
    THEN [photo EXCEPT !.latitude = geo_data[2], !.longitude = geo_data[3]]
    ELSE photo

\* mutant: latitude and longitude change places in the row
ParamsSwapped(photo) == <<photo.id, photo.title, photo.longitude, photo.latitude>>

\* line 160
Params(photo) == <<photo.id, photo.title, photo.latitude, photo.longitude>>

\* mutant: the coordinates change places
GeoParamsSwapped(search_text, matches) ==
  <<search_text, matches[1].lng, matches[1].lat>>

\* line 142
GeoParams(search_text, matches) ==
  <<search_text, matches[1].lat, matches[1].lng>>

SetTask(i, p, j, task) == pool' = [pool EXCEPT ![i][p][j] = task]

\* a worker of the page's pool takes the task and makes the existence check
\* (lines 153-155)
CheckExists(i, p, j) ==
  /\ MayStart(TaskPcs(i, p), j, no_of_processors, "queued", TaskAborted)
  /\ LET task == pool[i][p][j]
         result == GetData(image_metadata, 1, task.photo.id)
     IN  SetTask(i, p, j,
           [task EXCEPT !.existed = result # {},
                        !.pc = IF NotPersisted(result)
                                 THEN IF NeedsGeo(task.photo)
                                        THEN "geo_read" ELSE "insert"
                                 ELSE "done"])
  /\ UNCHANGED <<config, main, camp,
                 image_metadata, geo_info, failures>>

\* get_missing_geo_data reads the cache (lines 135-137)
GeoRead(i, p, j) ==
  /\ pool[i][p][j].pc = "geo_read"
  /\ LET task == pool[i][p][j]
         result == GetData(geo_info, 1, search_text_list[i])
         row == CHOOSE r \in result : TRUE
     IN  SetTask(i, p, j,
           IF Cached(result)
             THEN [task EXCEPT !.looked = TRUE, !.hit = result # {},
                               !.geo_data = row,
                               !.photo = Enrich(task.photo, row),
                               !.pc = "insert"]
             ELSE [task EXCEPT !.looked = TRUE, !.hit = result # {},
                               !.pc = "geocode"])
  /\ UNCHANGED <<config, main, camp,
                 image_metadata, geo_info, failures>>

\* mutant: an answer without a match is cached as a row of sentinels
GeocodeNegativeCache(i, p, j) ==
  /\ pool[i][p][j].pc = "geocode"
  /\ \E matches \in GeocodeAnswers(search_text_list[i]) :
       LET task == pool[i][p][j]
       IN  /\ SetTask(i, p, j,
                IF matches # <<>>
                  THEN [task EXCEPT !.calls = @ + 1,
                                    !.geo_data = GeoParams(search_text_list[i], matches),
                                    !.pc = "geo_insert"]
                  ELSE [task EXCEPT !.calls = @ + 1,
                                    !.geo_data = <<>>,
                                    !.pc = "insert"])
           /\ geo_info' = IF matches # <<>>
                            THEN geo_info
                            ELSE InsertData(geo_info,
                                   <<search_text_list[i], Sentinel, Sentinel>>)
  /\ UNCHANGED <<config, main, camp, image_metadata, failures>>

\* get_missing_geo_data asks the geocoder (lines 139-142); without a match it
\* returns () and the caller keeps the photo as it is (lines 145, 157)
Geocode(i, p, j) ==
  /\ pool[i][p][j].pc = "geocode"
  /\ \E matches \in GeocodeAnswers(search_text_list[i]) :
       LET task == pool[i][p][j]
       IN  SetTask(i, p, j,
             IF matches # <<>>
               THEN [task EXCEPT !.calls = @ + 1,
                                 !.geo_data = GeoParams(search_text_list[i], matches),
                                 !.pc = "geo_insert"]
               ELSE [task EXCEPT !.calls = @ + 1,
                                 !.geo_data = <<>>,
                                 !.photo = Enrich(task.photo, <<>>),
                                 !.pc = "insert"])
  /\ UNCHANGED <<config, main, camp,
                 image_metadata, geo_info, failures>>

\* the geocoder raises: the task raises
GeocodeRaises(i, p, j) ==
  /\ pool[i][p][j].pc = "geocode"
  /\ failures < MaxFailures
  /\ failures' = failures + 1
  /\ SetTask(i, p, j, [pool[i][p][j] EXCEPT !.calls = @ + 1, !.pc = "failed"])
  /\ UNCHANGED <<config, main, camp,
                 image_metadata, geo_info>>

\* get_missing_geo_data caches the coordinates and returns them (lines 143-144);
\* the caller takes them over (lines 157-159)
GeoInsert(i, p, j) ==
  /\ pool[i][p][j].pc = "geo_insert"
  /\ LET task == pool[i][p][j] IN
       /\ geo_info' = InsertData(geo_info, task.geo_data)
       /\ SetTask(i, p, j,
            [task EXCEPT !.photo = Enrich(task.photo, task.geo_data),
                         !.pc = "insert"])
  /\ UNCHANGED <<config, main, camp,
                 image_metadata, failures>>

\* lines 160-161
InsertImage(i, p, j) ==
  /\ pool[i][p][j].pc = "insert"
  /\ LET task == pool[i][p][j]
         params == Params(task.photo)
     IN  /\ image_metadata' = InsertData(image_metadata, params)
         /\ SetTask(i, p, j,
              [task EXCEPT !.params = params,
                           !.won = GetData(image_metadata, 1, params[1]) = {},
                           !.pc = "done"])
  /\ UNCHANGED <<config, main, camp,
                 geo_info, failures>>

\* ----------------------------------------------------------------- __main__
\* pool.map has every result: close and join the pool (lines 216-218)
MainMapReturns ==
  /\ main = "map"
  /\ \A i \in Campaigns : camp[i].pc = "done"
  /\ main' = "done"
  /\ UNCHANGED <<config, camp, pool,
                 image_metadata, geo_info, failures>>

\* a get_pages call raised: pool.map re-raises it in __main__ (line 216)
MainMapRaises ==
  /\ main = "map"
  /\ MapFails(CampPcs, no_of_processors, "raised", CampAborted)
  /\ main' = "raised"
  /\ UNCHANGED <<config, camp, pool,
                 image_metadata, geo_info, failures>>

\* the uncaught exception ends __main__; the pool, never closed and joined, is
\* terminated on exit, and with it the workers still running get_pages
MainExits ==
  /\ main = "raised"
  /\ main' = "exited"
  /\ camp' = [i \in Campaigns |->
                IF camp[i].pc \in {"done", "raised"}
                  THEN camp[i]
                  ELSE [camp[i] EXCEPT !.pc = "killed"]]
  /\ UNCHANGED <<config, pool,
                 image_metadata, geo_info, failures>>

\* --------------------------------------------------------------------- Spec
\* the constructor caps the page size (lines 41-44)
ClampPerPage(photos_per_page_arg) ==
  IF photos_per_page_arg > MaxPerPage THEN MaxPerPage ELSE photos_per_page_arg

\* the constructor (lines 40-54) and the state before anything has run
Constructed(photos_per_page_arg) ==
  /\ search_text_list \in SearchLists
  /\ photos_per_page = ClampPerPage(photos_per_page_arg)
  /\ no_of_processors \in 1 .. MaxProcs
  /\ fail_fast \in BOOLEAN
  /\ camp = [i \in DOMAIN search_text_list |->
               [pc |-> "queued", no_of_pages |-> 0, page_no |-> 0,
                fetched |-> <<>>, per_page |-> {}]]
  /\ pool = [i \in DOMAIN search_text_list |-> [p \in PageNos |-> <<>>]]
  /\ image_metadata = EmptyBag
  /\ geo_info = EmptyBag
  /\ failures = 0

\* __main__: WebScraper(search_list, 500, 'geo'), create_db_tables(), and the
\* outer pool with its map handed to the workers (lines 207-216)
Init ==
  /\ Constructed(MainPerPage)
  /\ main = "map"

Next ==
  \/ \E i \in Campaigns : GetNoOfPages(i)
  \/ \E i \in Campaigns : GetNoOfPagesRaises(i)
  \/ \E i \in Campaigns : FetchPage(i)
  \/ \E i \in Campaigns : FetchPageRaises(i)
  \/ \E i \in Campaigns : EndPages(i)
  \/ \E i \in Campaigns : JoinPage(i)
  \/ \E i \in Campaigns : MapRaises(i)
  \/ \E i \in Campaigns : TerminateSubPool(i)
  \/ \E i \in Campaigns, p \in PageNos : \E j \in DOMAIN pool[i][p] : CheckExists(i, p, j)
  \/ \E i \in Campaigns, p \in PageNos : \E j \in DOMAIN pool[i][p] : GeoRead(i, p, j)
  \/ \E i \in Campaigns, p \in PageNos : \E j \in DOMAIN pool[i][p] : Geocode(i, p, j)
  \/ \E i \in Campaigns, p \in PageNos : \E j \in DOMAIN pool[i][p] : GeocodeRaises(i, p, j)
  \/ \E i \in Campaigns, p \in PageNos : \E j \in DOMAIN pool[i][p] : GeoInsert(i, p, j)
  \/ \E i \in Campaigns, p \in PageNos : \E j \in DOMAIN pool[i][p] : InsertImage(i, p, j)
  \/ MainMapReturns
  \/ MainMapRaises
  \/ MainExits

Spec == Init /\ [][Next]_vars

\* ----------------------------------------------- the class used by a caller
\* the setter of photos_per_page_prop (line 86)
SetPhotosPerPage(photos_per_page_arg) ==
  /\ main = "constructed"
  /\ photos_per_page' = photos_per_page_arg
  /\ UNCHANGED <<search_text_list, no_of_processors, fail_fast, main, camp, pool,
                 image_metadata, geo_info, failures>>

\* the caller hands get_pages to the outer pool as __main__ does (lines 215-216):
\* the workers get the scraper as it is now
StartMap ==
  /\ main = "constructed"
  /\ main' = "map"
  /\ UNCHANGED <<config, camp, pool, image_metadata, geo_info, failures>>

\* a caller constructs the scraper with a page size of its choice
InitLib ==
  /\ \E photos_per_page_arg \in PerPageArgs : Constructed(photos_per_page_arg)
  /\ main = "constructed"

NextLib ==
  \/ \E photos_per_page_arg \in PerPageArgs : SetPhotosPerPage(photos_per_page_arg)
  \/ StartMap
  \/ Next

SpecLib == InitLib /\ [][NextLib]_vars

\* ------------------------------------------------------ vocabulary of the claims
KeysOf(pl) ==
  UNION { { <<i, p, j>> : j \in DOMAIN pl[i][p] } : <<i, p>> \in Campaigns \X PageNos }
TaskAt(pl, k) == pl[k[1]][k[2]][k[3]]
TaskKeys == KeysOf(pool)
T(k) == TaskAt(pool, k)
TermOf(k) == search_text_list[k[1]]
\* the photo of task k as Flickr returned it
Original(k) == FlickrPhotos(TermOf(k), k[2])[k[3]]

\* number of rows of the table with this primary key
RowCount(table, key) ==
  LET rows == GetData(table, 1, key)
  IN  BagCardinality([r \in rows |-> table[r]])

\* the pages a get_pages call has requested
Requested(i) == {camp[i].fetched[n] : n \in DOMAIN camp[i].fetched}

\* nothing is running any more
Quiescent == ~ENABLED Next

\* ---------------------------------------------------------------------- C1
\* C1: however the invocations of insert_image_metadata_db for one record id
\* interleave between the existence check and the insert, image_metadata holds
\* at most one row per id in every state, and exactly one row for the id as
\* soon as one of the invocations has returned.
C1_OneRowPerId ==
  /\ \A id \in Ids : RowCount(image_metadata, id) <= 1
  /\ \A k \in TaskKeys :
       T(k).pc = "done" => RowCount(image_metadata, T(k).photo.id) = 1

\* two invocations for one id both passed the existence check, both returned
C1_Witness ==
  \E k1, k2 \in TaskKeys :
    /\ k1 # k2
    /\ T(k1).photo.id = T(k2).photo.id
    /\ T(k1).pc = "done" /\ T(k2).pc = "done"
    /\ ~T(k1).existed /\ ~T(k2).existed
    /\ T(k1).won /\ ~T(k2).won
    /\ RowCount(image_metadata, T(k1).photo.id) = 1

\* ---------------------------------------------------------------------- C2
\* C2: when insert_data is called more than once with one primary key and
\* different payloads, the table keeps exactly one row for the key, the payload
\* of the first call; the later calls change nothing.
C2_InsertIfAbsent ==
  \A k \in TaskKeys :
    (T(k).pc = "done" /\ T(k).params # <<>>) =>
      /\ RowCount(image_metadata, T(k).params[1]) = 1
      /\ T(k).won => GetData(image_metadata, 1, T(k).params[1]) = {T(k).params}

\* insert_data was called twice for id A with different payloads
C2_Witness ==
  \E k1, k2 \in TaskKeys :
    /\ T(k1).pc = "done" /\ T(k2).pc = "done"
    /\ T(k1).params # <<>> /\ T(k2).params # <<>>
    /\ T(k1).params[1] = T(k2).params[1]
    /\ T(k1).params # T(k2).params
    /\ T(k1).won /\ ~T(k2).won
    /\ GetData(image_metadata, 1, T(k1).params[1]) = {T(k1).params}

\* ---------------------------------------------------------------------- C3
\* C3: for a search term with reported page count P, get_pages requests the
\* pages 1, 2, ... in this order, each once, and never page P or beyond; when it
\* returns it has requested exactly 1..P-1; when P <= 1 it requests no page and
\* processes no record.
C3_PagesRequested ==
  \A i \in Campaigns :
    LET P == FlickrPages(search_text_list[i])
        fetched == camp[i].fetched
    IN  /\ \A n \in DOMAIN fetched : fetched[n] = n /\ n < P
        /\ camp[i].pc = "done" => Requested(i) = 1 .. (P - 1)
        /\ \A p \in PageNos : pool[i][p] # <<>> => p \in Requested(i)
        /\ P <= 1 => fetched = <<>> /\ \A p \in PageNos : pool[i][p] = <<>>

\* one call returned after the pages 1 and 2 of 3, another after none of 1
C3_Witness ==
  \E i1, i2 \in Campaigns :
    /\ camp[i1].pc = "done" /\ camp[i1].no_of_pages = 3
    /\ camp[i1].fetched = <<1, 2>>
    /\ pool[i1][3] = <<>>
    /\ camp[i2].pc = "done" /\ camp[i2].no_of_pages = 1
    /\ camp[i2].fetched = <<>>

\* ---------------------------------------------------------------------- C4
\* C4: within one get_pages call the pages are requested in strictly increasing
\* order, and when a page is requested every task of every earlier page has
\* finished: records of two pages of one term never run side by side.
C4_PagesSequential ==
  \A i \in Campaigns :
    LET fetched == camp[i].fetched IN
    /\ \A n \in 1 .. (Len(fetched) - 1) : fetched[n] < fetched[n + 1]
    /\ \A p, q \in PageNos :
         (p < q /\ q \in Requested(i)) =>
           \A j \in DOMAIN pool[i][p] : pool[i][p][j].pc = "done"

\* page 2 of a term is being processed after both records of page 1, which ran
\* side by side, have finished
C4_Witness ==
  \E i \in Campaigns :
    /\ no_of_processors >= 2
    /\ camp[i].fetched = <<1, 2>>
    /\ Len(pool[i][1]) = 2
    /\ \A j \in DOMAIN pool[i][1] : pool[i][1][j].pc = "done" /\ pool[i][1][j].won
    /\ \E j \in DOMAIN pool[i][2] : pool[i][2][j].pc = "insert"

\* ---------------------------------------------------------------------- C5
\* C5: when the processing of one record of a page has raised, then by the end
\* of the run every other record of that page has been processed and every
\* page 1..P-1 of the term has been requested and its records processed.
\* Stated for the builds whose map waits for every result, which abort least.
C5_RecordFailureIsolated ==
  (Quiescent /\ ~fail_fast) =>
    \A k \in TaskKeys :
      T(k).pc = "failed" =>
        LET i == k[1]
            P == FlickrPages(search_text_list[i])
        IN  /\ Requested(i) = 1 .. (P - 1)
            /\ \A h \in TaskKeys :
                 (h[1] = i /\ h # k) => T(h).pc = "done"

\* ---------------------------------------------------------------------- C6
\* C6: when get_pages has raised for one search term, then by the end of the
\* run get_pages has returned for every other search term of the list.
\* Stated for the builds whose map waits for every result, which abort least.
C6_TermFailureIsolated ==
  (Quiescent /\ ~fail_fast) =>
    \A i \in Campaigns :
      camp[i].pc = "raised" =>
        \A h \in Campaigns \ {i} : camp[h].pc = "done"

\* ---------------------------------------------------------------------- C7
\* C7: a get_missing_geo_data call that starts when geo_info already holds the
\* row of its search text makes no remote geocode call and returns that row.
C7_GeoCacheHit ==
  \A k \in TaskKeys :
    T(k).hit =>
      /\ T(k).calls = 0
      /\ T(k).pc \notin {"geocode", "geo_insert", "failed"}
      /\ T(k).geo_data \in GetData(geo_info, 1, TermOf(k))

\* one call asked the geocoder and cached its answer, a later call for the same
\* search text returned the same coordinates without asking
C7_Witness ==
  \E k1, k2 \in TaskKeys :
    /\ TermOf(k1) = TermOf(k2)
    /\ T(k1).pc = "done" /\ T(k1).calls = 1 /\ T(k1).geo_data # <<>>
    /\ T(k2).pc = "done" /\ T(k2).hit /\ T(k2).calls = 0
    /\ T(k2).geo_data = T(k1).geo_data
    /\ T(k2).params = <<T(k2).photo.id, "t", T(k1).geo_data[2], T(k1).geo_data[3]>>

\* ---------------------------------------------------------------------- C8
\* task k found no row of its id, its photo has the sentinel in an axis, and
\* geo resolution returned coordinates
Resolved(k) ==
  /\ T(k).pc = "done"
  /\ ~T(k).existed
  /\ NeedsGeo(Original(k))
  /\ T(k).geo_data # <<>>

\* C8 as stated: a record without a row at its existence check, with the
\* sentinel in an axis and resolved coordinates, is persisted with both
\* coordinates equal to the resolved ones.
C8_SentinelReplaced ==
  \A k \in TaskKeys :
    Resolved(k) =>
      GetData(image_metadata, 1, Original(k).id) =
        { <<Original(k).id, Original(k).title, T(k).geo_data[2], T(k).geo_data[3]>> }

\* C8 as amended: such a record is handed to insert_data with both coordinates
\* equal to the resolved ones, and that row is the persisted one unless another
\* worker stored a row of the same id after this worker's existence check.
C8_SentinelReplacedUnlessLost ==
  \A k \in TaskKeys :
    Resolved(k) =>
      /\ T(k).params =
           <<Original(k).id, Original(k).title, T(k).geo_data[2], T(k).geo_data[3]>>
      /\ RowCount(image_metadata, Original(k).id) = 1
      /\ T(k).won => GetData(image_metadata, 1, Original(k).id) = {T(k).params}

\* photo B (latitude 48.85, longitude 0) is persisted with both resolved axes
C8_Witness ==
  \E k \in TaskKeys :
    /\ Resolved(k) /\ T(k).won
    /\ Original(k).latitude # Sentinel /\ Original(k).longitude = Sentinel
    /\ T(k).geo_data[2] # Original(k).latitude
    /\ GetData(image_metadata, 1, Original(k).id) =
         { <<Original(k).id, "t", T(k).geo_data[2], T(k).geo_data[3]>> }

\* ---------------------------------------------------------------------- C9
\* task k found no row of its id, both axes of its photo hold the sentinel, the
\* cache had no row and the geocoder no match
Unresolved(k) ==
  /\ T(k).pc = "done"
  /\ ~T(k).existed
  /\ Original(k).latitude = Sentinel /\ Original(k).longitude = Sentinel
  /\ T(k).looked /\ ~T(k).hit /\ T(k).calls = 1
  /\ T(k).geo_data = <<>>

\* C9 as stated: such a record is persisted with latitude "0", longitude "0".
C9_SentinelPreserved ==
  \A k \in TaskKeys :
    Unresolved(k) =>
      GetData(image_metadata, 1, Original(k).id) =
        { <<Original(k).id, Original(k).title, Sentinel, Sentinel>> }

\* C9 as amended: such a record is handed to insert_data with latitude "0" and
\* longitude "0", and that row is the persisted one unless another worker
\* stored a row of the same id after this worker's existence check.
C9_SentinelPreservedUnlessLost ==
  \A k \in TaskKeys :
    Unresolved(k) =>
      /\ T(k).params = <<Original(k).id, Original(k).title, Sentinel, Sentinel>>
      /\ RowCount(image_metadata, Original(k).id) = 1
      /\ T(k).won => GetData(image_metadata, 1, Original(k).id) = {T(k).params}

\* photo D of "atlantis" is persisted with both sentinels
C9_Witness ==
  \E k \in TaskKeys :
    /\ Unresolved(k) /\ T(k).won
    /\ GetData(image_metadata, 1, Original(k).id) =
         { <<Original(k).id, "t", "0", "0">> }
    /\ GetData(geo_info, 1, TermOf(k)) = {}

\* --------------------------------------------------------------------- C10
\* C10: an invocation whose existence check finds a row of the record's id
\* returns at once: the check step changes neither table, and the invocation
\* never reads the geo cache, calls the geocoder or calls insert_data.
C10_SkipPersisted ==
  [][ \A k \in KeysOf(pool') :
        TaskAt(pool', k).existed =>
          /\ TaskAt(pool', k).pc = "done"
          /\ ~TaskAt(pool', k).looked
          /\ TaskAt(pool', k).calls = 0
          /\ TaskAt(pool', k).geo_data = <<>>
          /\ TaskAt(pool', k).params = <<>>
          /\ (k \in TaskKeys /\ ~T(k).existed) =>
               /\ image_metadata' = image_metadata
               /\ geo_info' = geo_info ]_vars

\* an invocation for a sentinel record found the row of its id and returned
C10_Witness ==
  \E k \in TaskKeys :
    /\ T(k).existed /\ T(k).pc = "done"
    /\ NeedsGeo(T(k).photo)
    /\ RowCount(image_metadata, T(k).photo.id) = 1

\* --------------------------------------------------------------------- C11
\* C11: however the calls of get_missing_geo_data for one search text
\* interleave, also when several workers miss the cache and each asks the
\* geocoder, geo_info holds at most one row per search_text, and a row of
\* geo_info is never removed or changed by a step.
C11_GeoRowStable ==
  [][ /\ \A t \in Terms : RowCount(geo_info', t) <= 1
      /\ \A r \in BagToSet(geo_info) : r \in BagToSet(geo_info') ]_vars

\* two workers of one term missed the cache, got different answers from the
\* geocoder and both went through insert_data; the row is the first one's
C11_Witness ==
  \E k \in TaskKeys, m \in TaskKeys :
    /\ k # m /\ TermOf(k) = TermOf(m)
    /\ T(k).looked /\ ~T(k).hit /\ T(k).calls = 1
    /\ T(m).looked /\ ~T(m).hit /\ T(m).calls = 1
    /\ T(k).pc \in {"insert", "done"} /\ T(m).pc \in {"insert", "done"}
    /\ T(k).geo_data # <<>> /\ T(m).geo_data # <<>>
    /\ T(k).geo_data # T(m).geo_data
    /\ GetData(geo_info, 1, TermOf(k)) = {T(k).geo_data}

\* --------------------------------------------------------------------- C12
\* C12: whatever page sizes the constructor and the setter of
\* photos_per_page_prop were given, every call of flickr.photos.search, the
\* page-count query and the page fetches alike, is made with per_page at
\* most 500.
C12_PerPageAtMost500 ==
  \A i \in Campaigns : \A n \in camp[i].per_page : n <= MaxPerPage

\* --------------------------------------------------------------------- C13
\* C13: a search term that occurs more than once in search_text_list gets one
\* get_pages call per occurrence, each with its own page-count query, its own
\* requests of pages 1..P-1 and its own tasks for the photos of these pages;
\* image_metadata still holds at most one row per photo id.
C13_DuplicateTerms ==
  /\ \A i \in Campaigns, h \in Campaigns :
       ( /\ i # h /\ search_text_list[i] = search_text_list[h]
         /\ camp[i].pc = "done" ) =>
           /\ camp[i].no_of_pages = FlickrPages(search_text_list[i])
           /\ camp[i].per_page # {}
           /\ camp[i].fetched = [n \in 1 .. camp[i].no_of_pages - 1 |-> n]
           /\ \A p \in 1 .. camp[i].no_of_pages - 1 :
                /\ DOMAIN pool[i][p] = DOMAIN FlickrPhotos(search_text_list[i], p)
                /\ \A j \in DOMAIN pool[i][p] : pool[i][p][j].pc = "done"
  /\ \A id \in Ids : RowCount(image_metadata, id) <= 1

\* both occurrences of a term have run to the end, their tasks for one photo
\* passed the existence check together, and the photo has one row
C13_Witness ==
  \E i \in Campaigns, h \in Campaigns :
    /\ i # h /\ search_text_list[i] = search_text_list[h]
    /\ camp[i].pc = "done" /\ camp[h].pc = "done"
    /\ camp[i].fetched # <<>> /\ camp[h].fetched # <<>>
    /\ \E j \in DOMAIN pool[i][1], l \in DOMAIN pool[h][1] :
         /\ pool[i][1][j].photo.id = pool[h][1][l].photo.id
         /\ pool[i][1][j].won
         /\ ~pool[h][1][l].existed /\ ~pool[h][1][l].won
         /\ RowCount(image_metadata, pool[i][1][j].photo.id) = 1

\* --------------------------------------------------------------------- C14
\* C14: in every state, a row of image_metadata whose latitude or longitude
\* is the sentinel was stored by an invocation whose geo resolution found
\* nothing: it read the cache of its search text without a hit and the
\* geocoder answered without a match, so it stored the photo as Flickr gave it.
\* Every other row has neither coordinate equal to the sentinel.
C14_SentinelOnlyUnresolved ==
  \A row \in BagToSet(image_metadata) :
    (row[3] = Sentinel \/ row[4] = Sentinel) =>
      \E k \in TaskKeys :
        /\ T(k).won /\ T(k).params = row
        /\ T(k).looked /\ ~T(k).hit /\ T(k).calls = 1
        /\ T(k).geo_data = <<>>
        /\ row = Params(Original(k))

\* both kinds of row are there: one stored with the sentinel after a
\* resolution that found nothing, one enriched from a half-known position
C14_Witness ==
  /\ \E k \in TaskKeys :
       /\ T(k).won /\ T(k).params[3] = Sentinel
       /\ T(k).looked /\ ~T(k).hit /\ T(k).geo_data = <<>>
       /\ T(k).params \in BagToSet(image_metadata)
  /\ \E k \in TaskKeys :
       /\ T(k).won /\ NeedsGeo(Original(k))
       /\ T(k).params[3] # Sentinel /\ T(k).params[4] # Sentinel
       /\ T(k).params \in BagToSet(image_metadata)

\* --------------------------------------------------------------------- C15
\* C15: the run with search_text_list ["rome"], a page count of 2, the single
\* photo A with latitude "0" and longitude "0" on page 1 and the geocoder
\* answering (41.9, 12.5) for "rome", once it has stopped without a failed
\* remote call, has returned from pool.map and left exactly the row
\* (A, t, 41.9, 12.5) in image_metadata and exactly the row (rome, 41.9, 12.5)
\* in geo_info.
C15_EndToEnd ==
  ( /\ search_text_list = <<"rome">>
    /\ Quiescent
    /\ failures = 0 ) =>
      /\ main = "done"
      /\ camp[1].no_of_pages = 2
      /\ camp[1].fetched = <<1>>
      /\ image_metadata = SetToBag({ <<"A", "t", "41.9", "12.5">> })
      /\ geo_info = SetToBag({ <<"rome", "41.9", "12.5">> })

\* the end of that run
C15_Witness ==
  /\ search_text_list = <<"rome">>
  /\ Quiescent
  /\ failures = 0
  /\ main = "done"
  /\ BagCardinality(image_metadata) = 1
  /\ BagCardinality(geo_info) = 1
  /\ pool[1][1][1].won /\ pool[1][1][1].calls = 1

\* --------------------------------------------------------------------- C16
\* the get_pages calls a worker of the outer pool is in
InProgress == {i \in Campaigns : camp[i].pc \in {"loop", "map"}}

\* the invocations of insert_image_metadata_db a worker of a page's pool is in
Running(i) ==
  {k \in TaskKeys : k[1] = i /\ T(k).pc \in {"geo_read", "geocode", "geo_insert", "insert"}}

RunningAll == UNION {Running(i) : i \in Campaigns}

\* C16: with pools of width no_of_processors at both levels, at most that many
\* get_pages calls are in progress, each of them has at most that many record
\* workers running, all on the page it is at, and so no more than
\* no_of_processors * no_of_processors record workers run at any time.
C16_WidthBound ==
  /\ Cardinality(InProgress) <= no_of_processors
  /\ \A i \in InProgress :
       /\ Cardinality(Running(i)) <= no_of_processors
       /\ \A k \in Running(i) : k[2] = camp[i].page_no
  /\ Cardinality(RunningAll) <= no_of_processors * no_of_processors

\* --------------------------------------------------------------------- C17
\* C17: an invocation for a photo that has no row yet and whose latitude and
\* longitude both differ from "0" never reads the geo cache and never calls
\* the geocoder, none of its steps changes geo_info, and when it has returned
\* the row of the photo's id is the photo's own id, title, latitude and
\* longitude.
C17_KnownGeoUntouched ==
  [][ \A k \in KeysOf(pool') :
        ( /\ Original(k).latitude # Sentinel
          /\ Original(k).longitude # Sentinel
          /\ ~TaskAt(pool', k).existed ) =>
            /\ TaskAt(pool', k).pc \in {"queued", "insert", "done", "killed"}
            /\ ~TaskAt(pool', k).looked
            /\ TaskAt(pool', k).calls = 0
            /\ TaskAt(pool', k).geo_data = <<>>
            /\ TaskAt(pool', k).pc = "done" =>
                 /\ TaskAt(pool', k).params = Params(Original(k))
                 /\ GetData(image_metadata', 1, Original(k).id) =
                      {Params(Original(k))}
            /\ (k \in TaskKeys /\ T(k) # TaskAt(pool', k)) =>
                 geo_info' = geo_info ]_vars

\* such a photo has been stored while the cache of its term was still empty
C17_Witness ==
  \E k \in TaskKeys :
    /\ Original(k).latitude # Sentinel /\ Original(k).longitude # Sentinel
    /\ T(k).pc = "done" /\ T(k).won
    /\ ~T(k).looked /\ T(k).calls = 0
    /\ Params(Original(k)) \in BagToSet(image_metadata)
    /\ GetData(geo_info, 1, TermOf(k)) = {}

\* --------------------------------------------------------------------- C18
\* get_missing_geo_data of task k has returned coordinates
Returned(k) == T(k).pc \in {"insert", "done"} /\ T(k).geo_data # <<>>

\* C18 as stated: whenever get_missing_geo_data has returned coordinates for a
\* search text, they are those of the geo_info row of that search text, also
\* for a worker that missed the cache, asked the geocoder and found the row
\* already there at its insert.
C18_ReturnsCached ==
  \A k \in TaskKeys :
    Returned(k) => GetData(geo_info, 1, TermOf(k)) = {T(k).geo_data}

\* C18, amended: whenever get_missing_geo_data has returned coordinates for a
\* search text, geo_info has the row of that search text. After a cache hit
\* the returned coordinates are the row's; after a miss they are those of the
\* first match the geocoder gave to this call, and they are the row's unless
\* the row was stored by another worker that missed the cache as well. The
\* photo is enriched with the returned coordinates.
C18_ReturnsCachedOrOwnAnswer ==
  \A k \in TaskKeys :
    Returned(k) =>
      /\ RowCount(geo_info, TermOf(k)) = 1
      /\ T(k).hit => GetData(geo_info, 1, TermOf(k)) = {T(k).geo_data}
      /\ ~T(k).hit =>
           /\ \E matches \in GeocodeAnswers(TermOf(k)) :
                /\ matches # <<>>
                /\ T(k).geo_data = <<TermOf(k), matches[1].lat, matches[1].lng>>
           /\ \/ GetData(geo_info, 1, TermOf(k)) = {T(k).geo_data}
              \/ \E m \in TaskKeys :
                   /\ m # k /\ TermOf(m) = TermOf(k)
                   /\ T(m).looked /\ ~T(m).hit /\ T(m).calls = 1
                   /\ GetData(geo_info, 1, TermOf(k)) = {T(m).geo_data}
      /\ T(k).photo.latitude = T(k).geo_data[2]
      /\ T(k).photo.longitude = T(k).geo_data[3]

\* a worker lost the race of the geo insert with another answer of the
\* geocoder, and the row it stored for its photo has its own coordinates
C18_Witness ==
  \E k \in TaskKeys :
    /\ Returned(k) /\ ~T(k).hit /\ T(k).pc = "done" /\ T(k).won
    /\ RowCount(geo_info, TermOf(k)) = 1
    /\ T(k).geo_data \notin GetData(geo_info, 1, TermOf(k))
    /\ <<Original(k).id, "t", T(k).geo_data[2], T(k).geo_data[3]>>
         \in BagToSet(image_metadata)

\* --------------------------------------------------------------------- C19
\* every process that can take a step eventually takes one: the workers of the
\* pools and __main__ are processes of their own, and every remote call returns
FairSpec == Spec /\ WF_vars(Next)

\* pool.map of __main__ has returned and no remote call has raised
Completed == main = "done" /\ failures = 0

\* C19: when pool.map of __main__ has returned and no remote call has raised,
\* every get_pages call and every task of its pages' pools has finished, and
\* every photo of pages 1..P-1 of every search term has exactly one row in
\* image_metadata; and a run in which no remote call raises does get there.
C19_CompleteAndTerminates ==
  /\ [](Completed =>
          \A i \in Campaigns :
            /\ camp[i].pc = "done"
            /\ \A p \in 1 .. FlickrPages(search_text_list[i]) - 1 :
                 LET photos == FlickrPhotos(search_text_list[i], p)
                 IN  /\ DOMAIN pool[i][p] = DOMAIN photos
                     /\ \A j \in DOMAIN photos :
                          /\ pool[i][p][j].pc = "done"
                          /\ RowCount(image_metadata, photos[j].id) = 1)
  /\ <>(Completed \/ failures > 0)

\* the run of __main__'s own list has ended: the photos of pages 1 and 2 of
\* "paris" and of page 1 of "rome" are stored once, no other photo is
C19_Witness ==
  /\ Completed
  /\ Len(search_text_list) = 3
  /\ Quiescent
  /\ \A id \in {"A", "B", "C"} : RowCount(image_metadata, id) = 1
  /\ BagCardinality(image_metadata) = 3

\* --------------------------------------------------------------------- C20
\* C20: a call of get_missing_geo_data that misses the cache and gets no match
\* from the geocoder returns () and leaves geo_info and the photo as they are;
\* nothing records the miss, so every call that misses the cache goes on to
\* the geocoder, however many calls for that search text came back empty
\* before.
C20_NoNegativeCaching ==
  [][ \A k \in KeysOf(pool') :
        /\ (TaskAt(pool', k).looked /\ ~TaskAt(pool', k).hit) =>
             \/ TaskAt(pool', k).calls = 1
             \/ TaskAt(pool', k).pc \in {"geocode", "killed"}
        /\ ( /\ k \in TaskKeys
             /\ T(k).pc = "geocode"
             /\ TaskAt(pool', k).pc = "insert" ) =>
               /\ TaskAt(pool', k).geo_data = <<>>
               /\ TaskAt(pool', k).calls = 1
               /\ TaskAt(pool', k).photo = T(k).photo
               /\ geo_info' = geo_info ]_vars

\* with one worker per pool, two photos of a term without a match have been
\* processed one after the other: each call asked the geocoder, and geo_info
\* has no row of the term
C20_Witness ==
  \E k \in TaskKeys, m \in TaskKeys :
    /\ no_of_processors = 1
    /\ k # m /\ k[1] = m[1]
    /\ T(k).pc = "done" /\ T(m).pc = "done"
    /\ T(k).looked /\ ~T(k).hit /\ T(k).calls = 1 /\ T(k).geo_data = <<>>
    /\ T(m).looked /\ ~T(m).hit /\ T(m).calls = 1 /\ T(m).geo_data = <<>>
    /\ GetData(geo_info, 1, TermOf(k)) = {}

====
